---- MODULE Spec2Model ----
(***************************************************************************)
(* The ESLint rule require-options-object (src/src/require-options-object.ts)*)
(* as a state machine.  One function-like node is parsed, visited by        *)
(* checkParameters, the reported fix is applied to the source text, the    *)
(* text is parsed again and the node is visited a second time.             *)
(*                                                                         *)
(* Source text is a sequence of tokens; a range [s, e] is a pair of token  *)
(* offsets, 0-based and half-open as ESLint ranges are.                    *)
(***************************************************************************)
EXTENDS Integers, Sequences, FiniteSets, TLC

VARIABLES node, text, reports, indexReports, typeTxts, pass, pc, orig, applied

vars == <<node, text, reports, indexReports, typeTxts, pass, pc, orig, applied>>

\* Largest parameter list the parser hands over.
MaxParams == 4

\* `parameters.length <= 3`
Threshold == 3

\* Parameter names by position.
Names == <<"a", "b", "c", "d", "e", "f", "g">>

RECURSIVE Join(_, _)
\* Array.prototype.join on token sequences: the parts separated by sep.
Join(parts, sep) ==
  IF Len(parts) = 0 THEN <<>>
  ELSE IF Len(parts) = 1 THEN parts[1]
  ELSE parts[1] \o sep \o Join(Tail(parts), sep)

-----------------------------------------------------------------------------
(* The syntax tree: TSESTree.Parameter.  Absent fields are <<>> ("null")   *)
(* or "None".                                                              *)

\* A literal or expression used as a default value: its node type, the
\* `typeof` of a Literal's value, and its source text.
DefaultNodes ==
  { [type |-> "Literal", typeofValue |-> "string", text |-> <<"'w'">>],
    [type |-> "Literal", typeofValue |-> "number", text |-> <<"2">>],
    [type |-> "Literal", typeofValue |-> "boolean", text |-> <<"true">>],
    [type |-> "Literal", typeofValue |-> "object", text |-> <<"null">>],
    [type |-> "CallExpression", typeofValue |-> "undefined",
     text |-> <<"f", "(", "1", ",", "2", ")">>] }

\* `defaultNode: null`
NullNode == [type |-> "None", typeofValue |-> "undefined", text |-> <<>>]

\* One parameter shape: the fields of the node that the rule reads.
\*   type      p.type
\*   inner     p.parameter.type (TSParameterProperty) or p.left.type
\*             (AssignmentPattern)
\*   anno      text of the identifier's (or pattern's) type annotation
\*   optional  the identifier's `optional` flag
\*   right     p.right of an AssignmentPattern (also of a wrapped one)
Shape(type, inner, anno, optional, right) ==
  [type |-> type, inner |-> inner, anno |-> anno, optional |-> optional,
   right |-> right]

DefNum == CHOOSE d \in DefaultNodes : d.typeofValue = "number"

Shapes ==
  \* a, a: T, a?: Map<K, V>
  { Shape("Identifier", "None", <<>>, FALSE, NullNode),
    Shape("Identifier", "None", <<"T">>, FALSE, NullNode),
    Shape("Identifier", "None", <<"Map", "<", "K", ",", "V", ">">>, TRUE, NullNode) }
  \cup
  \* a = 2, a = 'w', a = true, a = null, a = f(1, 2)
  { Shape("AssignmentPattern", "Identifier", <<>>, FALSE, d) : d \in DefaultNodes }
  \cup
  \* a: T = 2
  { Shape("AssignmentPattern", "Identifier", <<"T">>, FALSE, DefNum) }
  \cup
  \* {a} = f(1, 2)
  { Shape("AssignmentPattern", "ObjectPattern", <<>>, FALSE, d) :
      d \in {x \in DefaultNodes : x.type = "CallExpression"} }
  \cup
  \* private a, private a?: T
  { Shape("TSParameterProperty", "Identifier", <<>>, FALSE, NullNode),
    Shape("TSParameterProperty", "Identifier", <<"T">>, TRUE, NullNode) }
  \cup
  \* private a = 2
  { Shape("TSParameterProperty", "AssignmentPattern", <<>>, FALSE, DefNum) }
  \cup
  \* ...a
  { Shape("RestElement", "None", <<>>, FALSE, NullNode) }
  \cup
  \* {a, z}, {a, z}: T, [a]
  { Shape("ObjectPattern", "None", <<>>, FALSE, NullNode),
    Shape("ObjectPattern", "None", <<"T">>, FALSE, NullNode),
    Shape("ArrayPattern", "None", <<>>, FALSE, NullNode) }

Plain == Shape("Identifier", "None", <<>>, FALSE, NullNode)

\* `name?: anno`, the way an identifier is written in a parameter list.
IdentText(name, optional, anno) ==
  <<name>> \o (IF optional THEN <<"?">> ELSE <<>>)
           \o (IF anno # <<>> THEN <<":">> \o anno ELSE <<>>)

AnnoText(anno) == IF anno # <<>> THEN <<":">> \o anno ELSE <<>>

\* sourceCode.getText(p): the source text the parameter was parsed from.
ParamText(s, name) ==
  IF s.type = "Identifier" THEN IdentText(name, s.optional, s.anno)
  ELSE IF s.type = "AssignmentPattern" THEN
    (IF s.inner = "Identifier" THEN IdentText(name, s.optional, s.anno)
     ELSE <<"{", name, "}">> \o AnnoText(s.anno))
    \o <<"=">> \o s.right.text
  ELSE IF s.type = "TSParameterProperty" THEN
    <<"private">> \o IdentText(name, s.optional, s.anno)
      \o (IF s.inner = "AssignmentPattern" THEN <<"=">> \o s.right.text ELSE <<>>)
  ELSE IF s.type = "RestElement" THEN <<"...", name>> \o AnnoText(s.anno)
  ELSE IF s.type = "ObjectPattern" THEN
    <<"{", name, ",", "z", "}">> \o AnnoText(s.anno)
  ELSE <<"[", name, "]">> \o AnnoText(s.anno)

\* A parameter node: a shape with its name, text and range.
Param(s, name, start) ==
  [type |-> s.type, inner |-> s.inner, anno |-> s.anno, optional |-> s.optional,
   right |-> s.right, name |-> name, text |-> ParamText(s, name),
   range |-> <<start, start + Len(ParamText(s, name))>>]

RECURSIVE Params(_, _, _)
\* The parameter nodes of a list of shapes, the first starting at offset
\* `start`; one separator token lies between two parameters.
Params(shapes, k, start) ==
  IF k > Len(shapes) THEN <<>>
  ELSE LET p == Param(shapes[k], Names[k], start)
       IN  <<p>> \o Params(shapes, k + 1, p.range[2] + 1)

\* Parameter lists: plain identifiers everywhere but at positions i and j,
\* which take any two shapes.  A rest element is the last parameter.
ShapeLists ==
  { sl \in UNION { { [k \in 1..n |-> IF k = i THEN s1 ELSE IF k = j THEN s2 ELSE Plain] :
                       i \in 1..n, j \in 1..n, s1 \in Shapes, s2 \in Shapes } :
                   n \in 1..MaxParams } \cup {<<>>} :
      \A k \in 1..Len(sl) : sl[k].type = "RestElement" => k = Len(sl) }

-----------------------------------------------------------------------------
(* node.parent: the fields of the enclosing node that the rule reads.      *)
\*   type        parent.type
\*   role        which child of the parent the function is
\*   idTyped     VariableDeclarator: parent.id.typeAnnotation is present
\*   calleeType  CallExpression: parent.callee.type
\*   propType    CallExpression: parent.callee.property.type
\*   propName    CallExpression: parent.callee.property.name
\*   leftType    AssignmentExpression: parent.left.type
\*   method      Property: parent.method
\*   fnType      the type of the function node itself
\*   trailing    the parameter list ends with a comma
Parent(type, role, fnType, trailing) ==
  [type |-> type, role |-> role, idTyped |-> FALSE, calleeType |-> "None",
   propType |-> "None", propName |-> "None", leftType |-> "None",
   method |-> FALSE, fnType |-> fnType, trailing |-> trailing]

Call(calleeType, propType, propName, fnType) ==
  [Parent("CallExpression", "argument", fnType, FALSE)
     EXCEPT !.calleeType = calleeType, !.propType = propType, !.propName = propName]

Parents ==
  { \* function f(...) {}
    Parent("Program", "body", "FunctionDeclaration", FALSE),
    \* const f: F = (...) => x;  const f = function (...,) {}
    [Parent("VariableDeclarator", "init", "ArrowFunctionExpression", FALSE)
       EXCEPT !.idTyped = TRUE],
    Parent("VariableDeclarator", "init", "FunctionExpression", TRUE),
    \* s.replaceAll((...) => x), e.on(function (...) {}), g((...) => x),
    \* s["replaceAll"]((...) => x)
    Call("MemberExpression", "Identifier", "replaceAll", "ArrowFunctionExpression"),
    Call("MemberExpression", "Identifier", "on", "FunctionExpression"),
    Call("Identifier", "None", "None", "ArrowFunctionExpression"),
    Call("MemberExpression", "Literal", "None", "ArrowFunctionExpression"),
    \* (function (...) {})()
    [Parent("CallExpression", "callee", "FunctionExpression", FALSE)
       EXCEPT !.calleeType = "FunctionExpression"],
    \* new C((...) => x)
    Parent("NewExpression", "argument", "ArrowFunctionExpression", FALSE),
    \* o.p = (...) => x,  g = function (...) {}
    [Parent("AssignmentExpression", "right", "ArrowFunctionExpression", FALSE)
       EXCEPT !.leftType = "MemberExpression"],
    [Parent("AssignmentExpression", "right", "FunctionExpression", FALSE)
       EXCEPT !.leftType = "Identifier"],
    \* { k: (...) => x },  { m(...) {} },  { [function (...) {}]: 1 }
    Parent("Property", "value", "ArrowFunctionExpression", FALSE),
    [Parent("Property", "value", "FunctionExpression", FALSE) EXCEPT !.method = TRUE],
    Parent("Property", "key", "FunctionExpression", FALSE),
    \* class C { constructor(...,) {} }
    Parent("MethodDefinition", "value", "FunctionExpression", TRUE) }

\* The tokens before the first parameter and after the last one.
HeadTokens(fnType) ==
  IF fnType = "FunctionDeclaration" THEN <<"function", "f", "(">>
  ELSE IF fnType = "FunctionExpression" THEN <<"function", "(">>
  ELSE <<"(">>

TailTokens(fnType) ==
  IF fnType = "ArrowFunctionExpression" THEN <<")", ":", "R", "=>", "x">>
  ELSE <<")", ":", "R", "{", "}">>

\* The source text of a function with these parameters.
FunctionText(parent, params) ==
  HeadTokens(parent.fnType)
    \o Join([k \in 1..Len(params) |-> params[k].text], <<",">>)
    \o (IF parent.trailing /\ Len(params) > 0 THEN <<",">> ELSE <<>>)
    \o TailTokens(parent.fnType)

\* A function-like node: FunctionDeclaration | FunctionExpression |
\* ArrowFunctionExpression.
FunctionNode(parent, params) ==
  [type |-> parent.fnType, parent |-> parent, params |-> params,
   range |-> <<0, Len(FunctionText(parent, params))>>]

Nodes ==
  { FunctionNode(parent, Params(sl, 1, Len(HeadTokens(parent.fnType)))) :
      parent \in Parents, sl \in ShapeLists }

-----------------------------------------------------------------------------
(* The rule.                                                               *)

\* isStdCallback(node, methods)
isStdCallback(n, methods) ==
  LET parent == n.parent
  IN  IF parent.type = "None" \/ parent.type # "CallExpression" THEN FALSE
      ELSE /\ parent.calleeType = "MemberExpression"
           /\ parent.propType = "Identifier"
           /\ parent.propName \in methods

\* isPropertyCallback without the `!parent.method` test.
isPropertyCallback_anyProperty(n) ==
  LET parent == n.parent
  IN  \/ parent.type = "Property" /\ parent.role = "value"
      \/ /\ parent.type = "AssignmentExpression"
         /\ parent.role = "right"
         /\ parent.leftType = "MemberExpression"
      \/ parent.type = "CallExpression" /\ parent.role = "argument"

\* isPropertyCallback without the call-argument test.
isPropertyCallback_noArguments(n) ==
  LET parent == n.parent
  IN  \/ parent.type = "Property" /\ parent.role = "value" /\ ~parent.method
      \/ /\ parent.type = "AssignmentExpression"
         /\ parent.role = "right"
         /\ parent.leftType = "MemberExpression"

\* isPropertyCallback(node)
isPropertyCallback(n) ==
  LET parent == n.parent
  IN  IF parent.type = "None" THEN FALSE
      ELSE IF parent.type = "Property" /\ parent.role = "value" /\ ~parent.method
        THEN TRUE
      ELSE IF /\ parent.type = "AssignmentExpression"
              /\ parent.role = "right"
              /\ parent.leftType = "MemberExpression"
        THEN TRUE
      ELSE IF parent.type = "CallExpression" /\ parent.role = "argument"
        THEN TRUE
      ELSE FALSE

\* getParamInfo that takes `optional` of a defaulted identifier from the
\* identifier's own flag.
getParamInfo_defaultNotOptional(p) ==
  IF p.type = "TSParameterProperty" /\ p.inner = "Identifier" THEN
    [name |-> <<p.name>>, defaultNode |-> NullNode, defaultText |-> <<>>,
     typeAnno |-> p.anno, optional |-> p.optional, hadType |-> p.anno # <<>>]
  ELSE IF p.type = "Identifier" THEN
    [name |-> <<p.name>>, defaultNode |-> NullNode, defaultText |-> <<>>,
     typeAnno |-> p.anno, optional |-> p.optional, hadType |-> p.anno # <<>>]
  ELSE IF p.type = "AssignmentPattern" /\ p.inner = "Identifier" THEN
    [name |-> <<p.name>>, defaultNode |-> p.right, defaultText |-> p.right.text,
     typeAnno |-> p.anno, optional |-> p.optional, hadType |-> p.anno # <<>>]
  ELSE
    [name |-> p.text, defaultNode |-> NullNode, defaultText |-> <<>>,
     typeAnno |-> <<>>, optional |-> FALSE, hadType |-> FALSE]

\* getParamInfo(p).  `null` texts are <<>>, `defaultNode: null` is NullNode.
getParamInfo(p) ==
  IF p.type = "TSParameterProperty" /\ p.inner = "Identifier" THEN
    [name |-> <<p.name>>, defaultNode |-> NullNode, defaultText |-> <<>>,
     typeAnno |-> p.anno, optional |-> p.optional, hadType |-> p.anno # <<>>]
  ELSE IF p.type = "Identifier" THEN
    [name |-> <<p.name>>, defaultNode |-> NullNode, defaultText |-> <<>>,
     typeAnno |-> p.anno, optional |-> p.optional, hadType |-> p.anno # <<>>]
  ELSE IF p.type = "AssignmentPattern" /\ p.inner = "Identifier" THEN
    [name |-> <<p.name>>, defaultNode |-> p.right, defaultText |-> p.right.text,
     typeAnno |-> p.anno, optional |-> TRUE, hadType |-> p.anno # <<>>]
  ELSE
    [name |-> p.text, defaultNode |-> NullNode, defaultText |-> <<>>,
     typeAnno |-> <<>>, optional |-> FALSE, hadType |-> FALSE]

\* inferType that looks at the default before the annotation.
inferType_literalFirst(info) ==
  IF info.defaultNode.type = "Literal"
     /\ info.defaultNode.typeofValue = "string" THEN <<"string">>
  ELSE IF info.defaultNode.type = "Literal"
          /\ info.defaultNode.typeofValue = "number" THEN <<"number">>
  ELSE IF info.defaultNode.type = "Literal"
          /\ info.defaultNode.typeofValue = "boolean" THEN <<"boolean">>
  ELSE IF info.typeAnno # <<>> THEN info.typeAnno
  ELSE <<"any">>

\* inferType(info)
inferType(info) ==
  IF info.typeAnno # <<>> THEN info.typeAnno
  ELSE IF info.defaultNode.type = "Literal"
          /\ info.defaultNode.typeofValue = "string" THEN <<"string">>
  ELSE IF info.defaultNode.type = "Literal"
          /\ info.defaultNode.typeofValue = "number" THEN <<"number">>
  ELSE IF info.defaultNode.type = "Literal"
          /\ info.defaultNode.typeofValue = "boolean" THEN <<"boolean">>
  ELSE <<"any">>

\* hadAnyType that also counts a type inferred from a literal default.
hadAnyType_orInferred(infos) ==
  \E k \in 1..Len(infos) :
     infos[k].hadType \/ infos[k].defaultNode.type = "Literal"

\* `infos.some((i) => i.hadType)`
hadAnyType(infos) == \E k \in 1..Len(infos) : infos[k].hadType

\* `${i.name} = ${i.defaultText}` or i.name, joined with ", "
propsList(infos) ==
  Join([k \in 1..Len(infos) |->
          IF infos[k].defaultText # <<>>
            THEN infos[k].name \o <<"=">> \o infos[k].defaultText
            ELSE infos[k].name],
       <<",">>)

\* `${i.name}${opt}: ${typeTxt}`
typeEntry(i) ==
  i.name \o (IF i.optional THEN <<"?">> ELSE <<>>) \o <<":">> \o inferType(i)

\* the entries joined with "; ", or "" when no parameter had a type
typesList(infos) ==
  IF hadAnyType(infos)
    THEN Join([k \in 1..Len(infos) |-> typeEntry(infos[k])], <<";">>)
    ELSE <<>>

\* replacement without the braces around the properties.
replacement_noBraces(infos) == propsList(infos)

\* `{ ${propsList} }: { ${typesList} }` or `{ ${propsList} }`
replacement(infos) ==
  IF hadAnyType(infos)
    THEN <<"{">> \o propsList(infos) \o <<"}", ":", "{">> \o typesList(infos) \o <<"}">>
    ELSE <<"{">> \o propsList(infos) \o <<"}">>

\* The range of the first parameter alone.
fixRange_firstOnly(parameters) ==
  <<parameters[1].range[1], parameters[1].range[2]>>

\* fixer.replaceTextRange([first.range[0], last.range[1]], replacement)
fixRange(parameters) ==
  <<parameters[1].range[1], parameters[Len(parameters)].range[2]>>

\* The fix callback of the report: the value it returns.
fix(parameters) ==
  LET infos == [k \in 1..Len(parameters) |-> getParamInfo(parameters[k])]
  IN  [present |-> TRUE, range |-> fixRange(parameters), text |-> replacement(infos)]

\* The typeTxt values the fix callback computes, one per parameter when a
\* type block is built.
fixTypeTxts(parameters) ==
  LET infos == [k \in 1..Len(parameters) |-> getParamInfo(parameters[k])]
  IN  IF hadAnyType(infos) THEN [k \in 1..Len(infos) |-> inferType(infos[k])]
      ELSE <<>>

\* checkParameters with `<` for `<=`.
checkParameters_lessThan(n) ==
  IF n.parent.type = "VariableDeclarator" /\ n.parent.idTyped THEN <<>>
  ELSE IF isStdCallback(n, {"replaceAll"}) THEN <<>>
  ELSE IF isPropertyCallback(n) THEN <<>>
  ELSE IF Len(n.params) < Threshold THEN <<>>
  ELSE << [node |-> n.range, messageId |-> "requireOptions",
           data |-> [count |-> Len(n.params)], fix |-> fix(n.params)] >>

\* checkParameters(node): the diagnostics it hands to context.report.
checkParameters(n) ==
  IF n.parent.type = "VariableDeclarator" /\ n.parent.idTyped THEN <<>>
  ELSE IF isStdCallback(n, {"replaceAll"}) THEN <<>>
  ELSE IF isPropertyCallback(n) THEN <<>>
  ELSE IF Len(n.params) <= Threshold THEN <<>>
  ELSE << [node |-> n.range, messageId |-> "requireOptions",
           data |-> [count |-> Len(n.params)], fix |-> fix(n.params)] >>

-----------------------------------------------------------------------------
(* The rule variant of src/src/index.ts (the default export).              *)

\* `parameters.length <= 3` of index.ts
IndexThreshold == 3

\* isStdCallback(node, methods) of index.ts
index_isStdCallback(n, methods) ==
  LET parent == n.parent
  IN  IF parent.type = "None" \/ parent.type # "CallExpression" THEN FALSE
      ELSE /\ parent.calleeType = "MemberExpression"
           /\ parent.propType = "Identifier"
           /\ parent.propName \in methods

\* One entry of `properties`: the name, `name = default`, or the text.
index_property(p) ==
  IF p.type = "Identifier" THEN <<p.name>>
  ELSE IF p.type = "AssignmentPattern" /\ p.inner = "Identifier"
    THEN <<p.name, "=">> \o p.right.text
  ELSE p.text

\* One entry of `types`: `name[?]: typeText`, or `text: any`.
index_type(p) ==
  IF p.type = "Identifier" \/ (p.type = "AssignmentPattern" /\ p.inner = "Identifier")
    THEN LET typeText ==
               IF p.anno # <<>> THEN p.anno
               ELSE IF p.type = "AssignmentPattern" /\ p.right.type = "Literal"
                       /\ p.right.typeofValue = "string" THEN <<"string">>
               ELSE IF p.type = "AssignmentPattern" /\ p.right.type = "Literal"
                       /\ p.right.typeofValue = "number" THEN <<"number">>
               ELSE IF p.type = "AssignmentPattern" /\ p.right.type = "Literal"
                       /\ p.right.typeofValue = "boolean" THEN <<"boolean">>
               ELSE <<"any">>
             optionalFlag ==
               IF p.optional \/ p.type = "AssignmentPattern" THEN <<"?">> ELSE <<>>
         IN  <<p.name>> \o optionalFlag \o <<":">> \o typeText
    ELSE p.text \o <<":", "any">>

\* `{ ${propertiesList} }: { ${types} }`
index_updatedParameter(parameters) ==
  <<"{">>
    \o Join([k \in 1..Len(parameters) |-> index_property(parameters[k])], <<",">>)
    \o <<"}", ":", "{">>
    \o Join([k \in 1..Len(parameters) |-> index_type(parameters[k])], <<";">>)
    \o <<"}">>

\* The range of the first parameter up to the start of the last one.
index_fixRange_lastStart(parameters) ==
  <<parameters[1].range[1], parameters[Len(parameters)].range[1]>>

\* fixer.replaceTextRange([first.range[0], last.range[1]], updatedParameter)
index_fixRange(parameters) ==
  <<parameters[1].range[1], parameters[Len(parameters)].range[2]>>

\* The fix callback of the report of index.ts.
index_fix(parameters) ==
  [present |-> TRUE, range |-> index_fixRange(parameters),
   text |-> index_updatedParameter(parameters)]

\* checkParameters(node) of index.ts: the diagnostics it reports.
index_checkParameters(n) ==
  IF n.parent.type = "VariableDeclarator" /\ n.parent.idTyped THEN <<>>
  ELSE IF index_isStdCallback(n, {"replaceAll"}) THEN <<>>
  ELSE IF Len(n.params) <= IndexThreshold THEN <<>>
  ELSE << [node |-> n.range, messageId |-> "requireOptions",
           data |-> [count |-> Len(n.params)], fix |-> index_fix(n.params)] >>

-----------------------------------------------------------------------------
(* The host: applying a fix to the source text and parsing the result.     *)

\* The text with the tokens of the fix's range replaced by the fix's text.
ApplyFix(src, f) ==
  SubSeq(src, 1, f.range[1]) \o f.text \o SubSeq(src, f.range[2] + 1, Len(src))

Openers == {"(", "{", "[", "<"}
Closers == {")", "}", "]", ">"}

RECURSIVE FindTop(_, _, _, _)
\* Index of the first token in `targets` outside every bracket, from k on;
\* 0 when there is none.
FindTop(toks, k, depth, targets) ==
  IF k > Len(toks) THEN 0
  ELSE IF depth = 0 /\ toks[k] \in targets THEN k
  ELSE IF toks[k] \in Openers THEN FindTop(toks, k + 1, depth + 1, targets)
  ELSE IF toks[k] \in Closers THEN FindTop(toks, k + 1, depth - 1, targets)
  ELSE FindTop(toks, k + 1, depth, targets)

\* The node of a default value, from its text.
ParseDefault(toks) ==
  IF \E d \in DefaultNodes : d.type = "Literal" /\ d.text = toks
    THEN CHOOSE d \in DefaultNodes : d.type = "Literal" /\ d.text = toks
    ELSE [type |-> "CallExpression", typeofValue |-> "undefined", text |-> toks]

\* One parameter, from its tokens; `start` is the offset of the first.
ParseParam(toks, start) ==
  LET modified == toks[1] = "private"
      body     == IF modified THEN SubSeq(toks, 2, Len(toks)) ELSE toks
      eq       == FindTop(body, 1, 0, {"="})
      left     == IF eq = 0 THEN body ELSE SubSeq(body, 1, eq - 1)
      colon    == FindTop(left, 1, 0, {":"})
      base     == IF colon = 0 THEN left ELSE SubSeq(left, 1, colon - 1)
      anno     == IF colon = 0 THEN <<>> ELSE SubSeq(left, colon + 1, Len(left))
      optional == base[Len(base)] = "?"
      baseType == IF base[1] = "{" THEN "ObjectPattern"
                  ELSE IF base[1] = "[" THEN "ArrayPattern"
                  ELSE IF base[1] = "..." THEN "RestElement"
                  ELSE "Identifier"
      unwrapped == IF eq = 0 THEN baseType ELSE "AssignmentPattern"
  IN  [type |-> IF modified THEN "TSParameterProperty" ELSE unwrapped,
       inner |-> IF modified THEN unwrapped
                 ELSE IF eq = 0 THEN "None" ELSE baseType,
       anno |-> anno, optional |-> optional,
       right |-> IF eq = 0 THEN NullNode
                 ELSE ParseDefault(SubSeq(body, eq + 1, Len(body))),
       name |-> IF baseType = "Identifier" THEN base[1] ELSE base[2],
       text |-> toks, range |-> <<start, start + Len(toks)>>]

RECURSIVE ParseParams(_, _)
\* The parameters of a list that starts at token k (1-based) of src and runs
\* to the parenthesis that closes it: they are separated by the commas
\* outside every bracket, and a comma may follow the last one.
ParseParams(src, k) ==
  LET stop == FindTop(src, k, 0, {",", ")"})
  IN  IF stop = k THEN <<>>
      ELSE <<ParseParam(SubSeq(src, k, stop - 1), k - 1)>>
             \o (IF src[stop] = ")" THEN <<>> ELSE ParseParams(src, stop + 1))

\* The function node the parser builds from the text, in the same place of
\* the tree.
Parse(src, parent) ==
  [type |-> parent.fnType, parent |-> parent,
   params |-> ParseParams(src, Len(HeadTokens(parent.fnType)) + 1),
   range |-> <<0, Len(src)>>]

-----------------------------------------------------------------------------
(* The analysis of one function: lint, fix, lint again.                    *)

\* Passes of lint-and-fix the host makes over one text.
MaxPasses == 2

NoFix == [present |-> FALSE, range |-> <<0, 0>>, text |-> <<>>]

Init ==
  /\ node \in Nodes
  /\ text = FunctionText(node.parent, node.params)
  /\ reports = <<>>
  /\ indexReports = <<>>
  /\ typeTxts = <<>>
  /\ pass = 1
  /\ pc = "parsed"
  /\ orig = [node |-> node, text |-> text]
  /\ applied = NoFix

\* The visitor of one node type calls checkParameters on the node, in the
\* rule of require-options-object.ts and in the default export of index.ts.
Visit(fnType) ==
  /\ pc = "parsed"
  /\ node.type = fnType
  /\ reports' = reports \o checkParameters(node)
  /\ indexReports' = indexReports \o index_checkParameters(node)
  /\ typeTxts' = IF checkParameters(node) # <<>> THEN fixTypeTxts(node.params)
                  ELSE <<>>
  /\ pc' = "linted"
  /\ UNCHANGED <<node, text, pass, orig, applied>>

FunctionDeclaration == Visit("FunctionDeclaration")

FunctionExpression == Visit("FunctionExpression")

ArrowFunctionExpression == Visit("ArrowFunctionExpression")

\* The host applies the fix of the report and parses the new text.
Autofix ==
  /\ pc = "linted"
  /\ pass < MaxPasses
  /\ Len(reports) > 0
  /\ reports[1].fix.present
  /\ text' = ApplyFix(text, reports[1].fix)
  /\ node' = Parse(text', node.parent)
  /\ applied' = reports[1].fix
  /\ reports' = <<>>
  /\ indexReports' = <<>>
  /\ typeTxts' = <<>>
  /\ pass' = pass + 1
  /\ pc' = "parsed"
  /\ UNCHANGED orig

Next ==
  \/ FunctionDeclaration
  \/ FunctionExpression
  \/ ArrowFunctionExpression
  \/ Autofix

Spec == Init /\ [][Next]_vars

-----------------------------------------------------------------------------
(* Properties.                                                             *)

\* The visit of the node has run.
Visited == pc = "linted"

IsCallArgument(n) == n.parent.type = "CallExpression" /\ n.parent.role = "argument"

IsAssignedToMember(n) ==
  /\ n.parent.type = "AssignmentExpression"
  /\ n.parent.role = "right"
  /\ n.parent.leftType = "MemberExpression"

IsPlainPropertyValue(n) ==
  n.parent.type = "Property" /\ n.parent.role = "value" /\ ~n.parent.method

IsTypedInitializer(n) ==
  n.parent.type = "VariableDeclarator" /\ n.parent.role = "init" /\ n.parent.idTyped

IsReplaceAllCallback(n) ==
  /\ IsCallArgument(n)
  /\ n.parent.calleeType = "MemberExpression"
  /\ n.parent.propType = "Identifier"
  /\ n.parent.propName = "replaceAll"

\* C1: a visited function with 3 or fewer parameters gets no diagnostic,
\* whatever its parent and whatever the shapes of its parameters.
C1_NoDiagnosticUpToThree ==
  (Visited /\ Len(node.params) <= 3) => reports = <<>>

\* A constructor with three parameters, one of them access-modified, was
\* visited in a place where four parameters are reported.
C1_Witness ==
  /\ Visited /\ pass = 1
  /\ node.parent.type = "MethodDefinition"
  /\ Len(node.params) = 3
  /\ \E k \in 1..3 : node.params[k].type = "TSParameterProperty"
  /\ reports = <<>>

InScope(n) ==
  /\ Len(n.params) > 3
  /\ ~IsTypedInitializer(n)
  /\ ~IsReplaceAllCallback(n)
  /\ ~IsCallArgument(n)
  /\ ~IsAssignedToMember(n)
  /\ ~IsPlainPropertyValue(n)

C3_ExclusionsAbsolute ==
  (Visited /\ (\/ IsCallArgument(node)
               \/ IsAssignedToMember(node)
               \/ IsPlainPropertyValue(node)
               \/ IsReplaceAllCallback(node))) => reports = <<>>

\* `o.p = (a, b, c, d) => x` was visited and not reported.
C3_Witness ==
  /\ Visited
  /\ IsAssignedToMember(node)
  /\ Len(node.params) > 3
  /\ reports = <<>>

IsDestructured(p) == p.type \in {"ObjectPattern", "ArrayPattern"}

\* C4: when the first parameter of a reported function is a destructuring
\* pattern, the diagnostic carries no fix.
C4_NoFixWhenFirstDestructured ==
  (Visited /\ reports # <<>> /\ IsDestructured(node.params[1])) =>
     ~reports[1].fix.present

\* C5: for a function with a rest parameter the rule never produces a fix.
C5_NoFixWithRest ==
  (Visited /\ \E k \in 1..Len(node.params) : node.params[k].type = "RestElement") =>
     \A r \in 1..Len(reports) : ~reports[r].fix.present

\* The parameter is one of the shapes getParamInfo names: an identifier, an
\* access-modified identifier or an identifier with a default.
Recognized(p) ==
  \/ p.type = "Identifier"
  \/ p.type = "TSParameterProperty" /\ p.inner = "Identifier"
  \/ p.type = "AssignmentPattern" /\ p.inner = "Identifier"

\* The property a parameter becomes in the destructuring pattern: `name`,
\* `name = default`, or the parameter's own text for any other shape.
PatternEntry(p) ==
  IF p.type = "AssignmentPattern" /\ p.inner = "Identifier"
    THEN <<p.name, "=">> \o p.right.text
  ELSE IF Recognized(p) THEN <<p.name>>
  ELSE p.text

BarePattern(params) ==
  <<"{">> \o Join([k \in 1..Len(params) |-> PatternEntry(params[k])], <<",">>)
         \o <<"}">>

C8_FixRangeExact ==
  /\ (Visited /\ reports # <<>>) =>
        reports[1].fix.range =
          <<node.params[1].range[1], node.params[Len(node.params)].range[2]>>
  /\ (pass >= 2) =>
        LET ps   == orig.node.params
            s    == ps[1].range[1]
            e    == ps[Len(ps)].range[2]
            fnT  == orig.node.type
            rest == (IF orig.node.parent.trailing THEN <<",">> ELSE <<>>)
                      \o TailTokens(fnT)
        IN  /\ SubSeq(text, 1, s) = SubSeq(orig.text, 1, s)
            /\ SubSeq(text, 1, s) = HeadTokens(fnT)
            /\ SubSeq(text, s + 1, s + Len(applied.text)) = applied.text
            /\ SubSeq(text, s + Len(applied.text) + 1, Len(text)) =
                  SubSeq(orig.text, e + 1, Len(orig.text))
            /\ SubSeq(text, s + Len(applied.text) + 1, Len(text)) = rest

\* A fix was applied to a parameter list that ends with a comma.
C8_Witness ==
  /\ pass = 2
  /\ applied.present
  /\ orig.node.parent.trailing
  /\ orig.node.parent.type = "MethodDefinition"

\* The precedence of inferType, on a descriptor.
PrecedenceType(info) ==
  CASE info.typeAnno # <<>> -> info.typeAnno
    [] info.typeAnno = <<>> /\ info.defaultNode.type = "Literal"
         /\ info.defaultNode.typeofValue = "string" -> <<"string">>
    [] info.typeAnno = <<>> /\ info.defaultNode.type = "Literal"
         /\ info.defaultNode.typeofValue = "number" -> <<"number">>
    [] info.typeAnno = <<>> /\ info.defaultNode.type = "Literal"
         /\ info.defaultNode.typeofValue = "boolean" -> <<"boolean">>
    [] OTHER -> <<"any">>

\* C9: the type computed for every descriptor is its annotation text when it
\* has one (also beside a literal default); otherwise "string", "number" or
\* "boolean" for a literal default of that kind; otherwise "any".
C9_InferTypePrecedence ==
  (Visited /\ reports # <<>> /\ typeTxts # <<>>) =>
     /\ Len(typeTxts) = Len(node.params)
     /\ \A k \in 1..Len(node.params) :
           typeTxts[k] = PrecedenceType(getParamInfo(node.params[k]))

\* Types were computed for an annotated parameter with a literal default
\* beside a parameter without annotation.
C9_Witness ==
  /\ Visited /\ typeTxts # <<>>
  /\ \E k \in 1..Len(node.params) :
        /\ node.params[k].type = "AssignmentPattern"
        /\ node.params[k].anno # <<>>
        /\ node.params[k].right.type = "Literal"
        /\ typeTxts[k] = node.params[k].anno
  /\ \E k \in 1..Len(node.params) : typeTxts[k] = <<"any">>

HasDefault(p) == p.right # NullNode

\* The entry of a parameter in the type block: `name: T` or `name?: T`.
TypeBlockEntry(p, opt) ==
  (IF Recognized(p) THEN <<p.name>> ELSE p.text)
    \o (IF opt THEN <<"?">> ELSE <<>>)
    \o <<":">> \o inferType(getParamInfo(p))

\* `{ props }: { types }` with one entry per parameter, in order; optional(p)
\* says which parameters get the `?` marker.
TypedPattern(params, optional(_)) ==
  BarePattern(params) \o <<":", "{">>
    \o Join([k \in 1..Len(params) |-> TypeBlockEntry(params[k], optional(params[k]))],
            <<";">>)
    \o <<"}">>

TypeBlockEmitted == Visited /\ reports # <<>> /\ typeTxts # <<>>

OptionalOrDefaulted(p) == p.optional \/ HasDefault(p)

\* C10 as stated: in the type block the `?` marker is present exactly when
\* the parameter was declared optional or has a default.
C10_MarkerForEveryDefault ==
  TypeBlockEmitted => reports[1].fix.text = TypedPattern(node.params, OptionalOrDefaulted)

RecognizedOptional(p) == Recognized(p) /\ (p.optional \/ HasDefault(p))

\* C10, amended: when a type block is emitted the replacement is
\* `{ props }: { types }`, one entry each per parameter in order; the `?`
\* marker is present exactly for an identifier (plain or access-modified)
\* declared optional and for an identifier with a default; a parameter of
\* any other shape contributes its source text and no marker, also when it
\* has a default.
C10_TypeBlockFormat ==
  TypeBlockEmitted => reports[1].fix.text = TypedPattern(node.params, RecognizedOptional)

\* A type block with an optional access-modified parameter, and one with
\* an unannotated defaulted identifier.
C10_Witness ==
  /\ TypeBlockEmitted
  /\ \E k \in 1..Len(node.params) :
        node.params[k].type = "TSParameterProperty" /\ node.params[k].optional
  /\ \E k \in 1..Len(node.params) :
        /\ node.params[k].type = "AssignmentPattern"
        /\ node.params[k].inner = "Identifier"
        /\ node.params[k].anno = <<>>

\* C11: whenever the rule of require-options-object.ts reports a node, the
\* default-export rule of index.ts reports the same node too, with the same
\* data.count and the same fix range; the nodes the first flags are among
\* the nodes the second flags.
C11_FlaggedAlsoByIndex ==
  (Visited /\ reports # <<>>) =>
     /\ Len(indexReports) = 1
     /\ indexReports[1].node = reports[1].node
     /\ indexReports[1].messageId = reports[1].messageId
     /\ indexReports[1].data.count = reports[1].data.count
     /\ indexReports[1].fix.present
     /\ indexReports[1].fix.range = reports[1].fix.range
     /\ indexReports[1].fix.range =
          <<node.params[1].range[1], node.params[Len(node.params)].range[2]>>

\* Both rules reported a constructor with access-modified parameters.
C11_Witness ==
  /\ Visited /\ pass = 1
  /\ reports # <<>> /\ indexReports # <<>>
  /\ node.parent.type = "MethodDefinition"
  /\ \E k \in 1..Len(node.params) : node.params[k].type = "TSParameterProperty"

\* index.ts flags a node that require-options-object.ts excludes: the
\* inclusion is strict.
C11_IndexFlagsMore ==
  /\ Visited
  /\ reports = <<>> /\ indexReports # <<>>
  /\ IsAssignedToMember(node)

====
